---- MODULE Spec2Model ----
(***************************************************************************)
(* Problem Profile Analyzer (src/app.py): one Streamlit script run per     *)
(* user interaction.  A run reads the name field and the Analyze button,   *)
(* calls fetch_issues (one HTTP POST, fence stripping, json.loads),        *)
(* preprocess_issues (date parsing, dropna, sort), assess_risk and builds  *)
(* the timeline figure.                                                    *)
(*                                                                         *)
(* Text is a sequence of characters.  A one-character string is that       *)
(* character.  The strings "R1", "R2", ... each stand for the text of one  *)
(* JSON object literal {"date": ..., "description": ..., "severity": ...}; *)
(* such a literal starts with "{" and ends with "}", which belong to no    *)
(* strip set of the program, so the string operations treat it as a unit.  *)
(***************************************************************************)
EXTENDS Integers, Sequences, FiniteSets, TLC

VARIABLES
    pc,         \* position of the script run
    name,       \* st.text_input value
    run_check,  \* st.button value
    resp,       \* the HTTP response of requests.post (ghost fields: fence, inner)
    requests,   \* number of requests.post calls made in this run
    parsed,     \* TRUE once the run has read the body as a completion (line 51)
    issues,     \* value returned by fetch_issues
    err,        \* st.error shown by fetch_issues
    df,         \* data frame returned by preprocess_issues (rows in order)
    metric,     \* st.metric("Total Issues", ...) value, -1 when not shown
    rating,     \* risk colour shown by st.markdown, "" when not shown
    message,    \* risk message shown with the rating
    fig,        \* points of the figure built by px.line, in order
    figBuilt,   \* TRUE once px.line returned
    info,       \* st.info shown (line 236)
    warning,    \* st.warning shown (line 239)
    exc         \* exception that escaped the script run, "" when none

vars == <<pc, name, run_check, resp, requests, parsed, issues, err, df, metric,
          rating, message, fig, figBuilt, info, warning, exc>>

-----------------------------------------------------------------------------
(* Bounds of the model *)

\* longest arbitrary completion text (every text over Alphabet up to this length)
MaxJunk == 3
\* longest arbitrary prefix of a JSON array of issue records
MaxRecs == 2
\* most copies of one further record appended to such an array
MaxPad == 4
\* longest issue sequence handed directly to assess_risk
MaxIssues == 5
\* longest issue sequence handed directly to preprocess_issues
MaxDated == 4

-----------------------------------------------------------------------------
(* Python str operations used by fetch_issues *)

Chars(p) == {p[i] : i \in DOMAIN p}

StartsWith(s, p) == Len(s) >= Len(p) /\ SubSeq(s, 1, Len(p)) = p

RECURSIVE LStrip(_, _)
LStrip(s, chars) ==
    IF s # <<>> /\ Head(s) \in chars THEN LStrip(Tail(s), chars) ELSE s

RECURSIVE RStrip(_, _)
RStrip(s, chars) ==
    IF s # <<>> /\ s[Len(s)] \in chars
    THEN RStrip(SubSeq(s, 1, Len(s) - 1), chars)
    ELSE s

\* str.strip(chars): removes from both ends every character that is in chars
Strip(s, chars) == RStrip(LStrip(s, chars), chars)

\* str.strip() without argument strips whitespace
Whitespace == {" ", "\n", "\t", "\r"}

\* the backquote character (U+0060), which a TLA+ string cannot hold
BQ == "bq"

FenceJson == <<BQ, BQ, BQ, "j", "s", "o", "n">>
Fence == <<BQ, BQ, BQ>>

\* lines 57-60
StripFence(raw_text) ==
    IF StartsWith(raw_text, FenceJson)
    THEN Strip(Strip(Strip(raw_text, Chars(FenceJson)), Chars(Fence)), Whitespace)
    ELSE IF StartsWith(raw_text, Fence)
         THEN Strip(Strip(raw_text, Chars(Fence)), Whitespace)
         ELSE raw_text

-----------------------------------------------------------------------------
(* Decoded JSON values.  Every value has the same fields so that values of  *)
(* different JSON types can be compared.                                    *)

Absent == [tag |-> "absent", y |-> 0, m |-> 0, d |-> 0, s |-> <<>>]
Null == [tag |-> "null", y |-> 0, m |-> 0, d |-> 0, s |-> <<>>]
\* a string of the form YYYY-MM-DD with these numeric fields
Ymd(y, m, d) == [tag |-> "ymd", y |-> y, m |-> m, d |-> d, s |-> <<>>]
\* any other string
Str(s) == [tag |-> "str", y |-> 0, m |-> 0, d |-> 0, s |-> s]
Num(k) == [tag |-> "num", y |-> k, m |-> 0, d |-> 0, s |-> <<>>]

Dict(date, description, severity) ==
    [date |-> date, description |-> description, severity |-> severity]

EmptyDict == Dict(Absent, Absent, Absent)

NullV == [t |-> "null", n |-> 0, o |-> EmptyDict, items |-> <<>>]
NumV(k) == [t |-> "num", n |-> k, o |-> EmptyDict, items |-> <<>>]
ObjV(o) == [t |-> "obj", n |-> 0, o |-> o, items |-> <<>>]
ListV(xs) == [t |-> "list", n |-> 0, o |-> EmptyDict, items |-> xs]

low == <<"l", "o", "w">>
medium == <<"m", "e", "d", "i", "u", "m">>
high == <<"h", "i", "g", "h">>
HIGH == <<"H", "I", "G", "H">>
High == <<"H", "i", "g", "h">>
lawsuit == <<"L", "a", "w", "s", "u", "i", "t">>
unknown == <<"u", "n", "k", "n", "o", "w", "n">>

\* the object literals of the model and the dict json.loads decodes each to
ObjTokens == {"R1", "R2", "R3", "R4", "R5", "R6", "R7", "R8"}

Decode(tok) ==
    CASE tok = "R1" -> Dict(Ymd(2023, 5, 1), Str(lawsuit), Str(low))
      [] tok = "R2" -> Dict(Ymd(2021, 1, 1), Str(lawsuit), Str(high))
      [] tok = "R3" -> Dict(Ymd(2022, 3, 3), Str(lawsuit), Str(HIGH))
      [] tok = "R4" -> Dict(Ymd(2023, 2, 30), Str(lawsuit), Str(medium))
      [] tok = "R5" -> Dict(Null, Str(lawsuit), Str(High))
      [] tok = "R6" -> Dict(Absent, Str(lawsuit), Str(low))
      [] tok = "R7" -> Dict(Ymd(2020, 1, 1), Str(lawsuit), Null)
      [] tok = "R8" -> Dict(Ymd(2024, 2, 29), Absent, Absent)

-----------------------------------------------------------------------------
(* json.loads on the modelled JSON subset: null, integers, arrays and the   *)
(* object literals R1.., with JSON whitespace skipped where the decoder     *)
(* skips it.                                                                *)

JsonWs == {" ", "\n", "\t", "\r"}
Digits == <<"0", "1", "2", "3", "4", "5", "6", "7", "8", "9">>
IsDigit(c) == \E k \in DOMAIN Digits : Digits[k] = c
DigitVal(c) == (CHOOSE k \in DOMAIN Digits : Digits[k] = c) - 1
NullText == <<"n", "u", "l", "l">>

Fail == [ok |-> FALSE, val |-> NullV, nxt |-> 0]
Ok(v, nxt) == [ok |-> TRUE, val |-> v, nxt |-> nxt]

RECURSIVE SkipWs(_, _)
SkipWs(s, i) == IF i <= Len(s) /\ s[i] \in JsonWs THEN SkipWs(s, i + 1) ELSE i

\* the integer part (0|[1-9][0-9]*) starting at i, with the value read so far
RECURSIVE ScanInt(_, _, _)
ScanInt(s, i, acc) ==
    IF i <= Len(s) /\ IsDigit(s[i])
    THEN ScanInt(s, i + 1, acc * 10 + DigitVal(s[i]))
    ELSE Ok(NumV(acc), i)

RECURSIVE ParseValue(_, _)
RECURSIVE ParseItems(_, _, _)

ParseValue(s, i) ==
    IF i > Len(s) THEN Fail
    ELSE IF s[i] \in ObjTokens THEN Ok(ObjV(Decode(s[i])), i + 1)
    ELSE IF s[i] = "n"
         THEN IF i + 3 <= Len(s) /\ SubSeq(s, i, i + 3) = NullText
              THEN Ok(NullV, i + 4)
              ELSE Fail
    ELSE IF s[i] = "0" THEN Ok(NumV(0), i + 1)
    ELSE IF IsDigit(s[i]) THEN ScanInt(s, i, 0)
    ELSE IF s[i] = "["
         THEN LET j == SkipWs(s, i + 1)
              IN  IF j <= Len(s) /\ s[j] = "]"
                  THEN Ok(ListV(<<>>), j + 1)
                  ELSE ParseItems(s, j, <<>>)
    ELSE Fail

ParseItems(s, i, acc) ==
    LET r == ParseValue(s, i)
    IN  IF ~r.ok THEN Fail
        ELSE LET j == SkipWs(s, r.nxt)
             IN  IF j > Len(s) THEN Fail
                 ELSE IF s[j] = "]" THEN Ok(ListV(Append(acc, r.val)), j + 1)
                 ELSE IF s[j] = "," THEN ParseItems(s, SkipWs(s, j + 1), Append(acc, r.val))
                 ELSE Fail

\* json.loads(s): one value, whitespace around it, nothing else
Loads(s) ==
    LET r == ParseValue(s, SkipWs(s, 1))
    IN  IF r.ok /\ SkipWs(s, r.nxt) > Len(s) THEN r ELSE Fail

-----------------------------------------------------------------------------
(* fetch_issues, lines 50-67: the try block on a 200 response *)

\* what the try block yields: the value returned and whether st.error was shown
Returned(v) == [failed |-> FALSE, val |-> v]
ParseFailed == [failed |-> TRUE, val |-> ListV(<<>>)]

\* lines 57-67 on the completion text
Interpret(raw_text) ==
    LET r == Loads(StripFence(raw_text))
    IN  IF r.ok THEN Returned(r.val) ELSE ParseFailed

\* lines 51-67 on the body of a 200 response; hasText is FALSE when the body
\* has no candidates[0].content.parts[0].text (KeyError/IndexError at line 51)
TryBlock(hasText, text) == IF hasText THEN Interpret(text) ELSE ParseFailed

-----------------------------------------------------------------------------
(* preprocess_issues, lines 69-75 *)

\* pd.NaT
NaT == 0 - 1

IsLeap(y) == (y % 4 = 0 /\ y % 100 # 0) \/ y % 400 = 0

DaysInMonth(y, m) ==
    IF m \in {4, 6, 9, 11} THEN 30
    ELSE IF m = 2 THEN (IF IsLeap(y) THEN 29 ELSE 28)
    ELSE 31

ValidDate(y, m, d) == m \in 1..12 /\ d >= 1 /\ d <= DaysInMonth(y, m)

RECURSIVE DaysBeforeMonth(_, _)
DaysBeforeMonth(y, m) ==
    IF m <= 1 THEN 0 ELSE DaysBeforeMonth(y, m - 1) + DaysInMonth(y, m - 1)

\* the day number of a calendar date: the order of the parsed timestamps
Ordinal(y, m, d) ==
    365 * (y - 1) + ((y - 1) \div 4) - ((y - 1) \div 100) + ((y - 1) \div 400)
    + DaysBeforeMonth(y, m) + d

\* faulty variant of ToDatetime: checks the form of the string only, so that
\* 2023-02-29 passes for a date (C8 must reject it)
ToDatetimeAnyDay(v) ==
    IF v.tag = "ymd" /\ v.m \in 1..12 /\ v.d \in 1..31
    THEN Ordinal(v.y, v.m, v.d)
    ELSE NaT

\* pd.to_datetime(..., errors="coerce") on one cell: a missing key (NaN), null,
\* a string that is no date and a date that does not exist all become NaT
ToDatetime(v) ==
    IF v.tag = "ymd" /\ ValidDate(v.y, v.m, v.d) THEN Ordinal(v.y, v.m, v.d) ELSE NaT

IsDictList(v) ==
    v.t = "list" /\ \A i \in DOMAIN v.items : v.items[i].t = "obj"

HasColumn(v, col) ==
    \E i \in DOMAIN v.items : v.items[i].o[col].tag # "absent"

\* the exception lines 70-71 raise, "" when none: pd.DataFrame rejects a scalar
\* and a dict of scalars, and df["date"] needs a "date" column, which exists
\* only when the value is a list of dicts of which one has the key
PreprocessRaises(v) ==
    IF v.t \in {"num", "obj"} THEN "ValueError"
    ELSE IF v.t = "null" THEN "KeyError"
    ELSE IF ~IsDictList(v)
         THEN (IF v.items # <<>> /\ v.items[1].t = "obj" THEN "AttributeError" ELSE "KeyError")
    ELSE IF ~HasColumn(v, "date") THEN "KeyError"
    ELSE ""

\* lines 70-71 and 74: one row per record, with the parsed date and count = 1
Frame(v) ==
    [i \in DOMAIN v.items |->
        [rec |-> v.items[i].o, date |-> ToDatetime(v.items[i].o.date), count |-> 1]]

\* line 72: dropna(subset=["date"])
DropNa(rows) == SelectSeq(rows, LAMBDA r : r.date # NaT)

RemoveAt(rows, i) == SubSeq(rows, 1, i - 1) \o SubSeq(rows, i + 1, Len(rows))

\* line 73: sort_values("date") with the default, unstable sort: every
\* ascending arrangement of the rows (rows of equal date in any order)
RECURSIVE SortValues(_)
SortValues(rows) ==
    IF rows = <<>> THEN {<<>>}
    ELSE LET first == {i \in DOMAIN rows :
                          /\ \A j \in DOMAIN rows : rows[i].date <= rows[j].date
                          /\ \A j \in 1..(i - 1) : rows[j] # rows[i]}
         IN  UNION {{<<rows[i]>> \o t : t \in SortValues(RemoveAt(rows, i))} : i \in first}

-----------------------------------------------------------------------------
(* assess_risk, lines 77-87 *)

UpperCase == <<"A", "B", "C", "D", "E", "F", "G", "H", "I", "J", "K", "L", "M",
               "N", "O", "P", "Q", "R", "S", "T", "U", "V", "W", "X", "Y", "Z">>
LowerCase == <<"a", "b", "c", "d", "e", "f", "g", "h", "i", "j", "k", "l", "m",
               "n", "o", "p", "q", "r", "s", "t", "u", "v", "w", "x", "y", "z">>

LowerChar(c) ==
    IF \E k \in DOMAIN UpperCase : UpperCase[k] = c
    THEN LowerCase[CHOOSE k \in DOMAIN UpperCase : UpperCase[k] = c]
    ELSE c

\* str.lower()
Lower(s) == [i \in DOMAIN s |-> LowerChar(s[i])]

\* i.get("severity", "")
GetSeverity(o) == IF o.severity.tag = "absent" THEN Str(<<>>) ELSE o.severity

\* line 80 raises AttributeError when an element has no .get (not a dict) or
\* the severity has no .lower (null, number)
AssessRaises(items) ==
    \E i \in DOMAIN items :
        items[i].t # "obj" \/ GetSeverity(items[i].o).tag \notin {"str", "ymd"}

\* the count threshold of line 84
RedCount == 5

\* faulty variant of AssessRisk: the count threshold is exclusive (C1 must
\* reject it)
AssessRiskStrict(items) ==
    LET count == Len(items)
        high_severity ==
            Cardinality({i \in DOMAIN items : Lower(GetSeverity(items[i].o).s) = high})
    IN  IF count = 0 THEN <<"Green", "No known issues.">>
        ELSE IF high_severity > 0 \/ count > RedCount
             THEN <<"Red", "Multiple or severe issues detected.">>
             ELSE <<"Yellow", "Some minor issues found.">>

\* lines 78-87, for a list on which line 80 does not raise
AssessRisk(items) ==
    LET count == Len(items)
        high_severity ==
            Cardinality({i \in DOMAIN items : Lower(GetSeverity(items[i].o).s) = high})
    IN  IF count = 0 THEN <<"Green", "No known issues.">>
        ELSE IF high_severity > 0 \/ count >= RedCount
             THEN <<"Red", "Multiple or severe issues detected.">>
             ELSE <<"Yellow", "Some minor issues found.">>

\* bool(issues) at line 102
Truthy(v) ==
    CASE v.t = "list" -> v.items # <<>>
      [] v.t = "num" -> v.n # 0
      [] v.t = "obj" -> v.o # EmptyDict
      [] v.t = "null" -> FALSE

\* px.line raises ValueError when a hover_data column is not in the frame
\* (line 122); the columns are the keys of all the records
ChartRaises(v) == ~HasColumn(v, "description") \/ ~HasColumn(v, "severity")

-----------------------------------------------------------------------------
(* The environment: the user's inputs and the HTTP responses *)

Names == {"", "Jane Roe"}

HTTP_OK == 200
StatusCodes == {HTTP_OK, 429, 500}

SeqsUpTo(S, n) == UNION {[1..k -> S] : k \in 0..n}

\* arbitrary completion texts
Alphabet == {BQ, "n", "s", "[", "]", "1", "\n", "R1"}
JunkTexts == SeqsUpTo(Alphabet, MaxJunk)

RECURSIVE Join(_)
Join(toks) ==
    IF toks = <<>> THEN <<>>
    ELSE IF Len(toks) = 1 THEN toks
    ELSE <<Head(toks), ",">> \o Join(Tail(toks))

\* JSON arrays of issue records (and of the number 1), in compact form
ItemTokens == ObjTokens \cup {"1"}
ArrayTexts ==
    {<<"[">> \o Join(p \o [i \in 1..k |-> "R1"]) \o <<"]">> :
        p \in SeqsUpTo(ItemTokens, MaxRecs), k \in 0..MaxPad}

Inners == JunkTexts \cup ArrayTexts \cup {NullText}

\* how the model wraps its completion: not at all, or in a markdown code fence
\* with or without the language tag and with or without newlines inside it
FenceKinds == {"none", "json", "json_nl", "plain", "plain_nl"}

Wrap(f, T) ==
    CASE f = "none" -> T
      [] f = "json" -> FenceJson \o T \o Fence
      [] f = "json_nl" -> FenceJson \o <<"\n">> \o T \o <<"\n">> \o Fence
      [] f = "plain" -> Fence \o T \o Fence
      [] f = "plain_nl" -> Fence \o <<"\n">> \o T \o <<"\n">> \o Fence

Response(status, hasText, f, T) ==
    [status |-> status, hasText |-> hasText, text |-> Wrap(f, T), fence |-> f, inner |-> T]

NoResponse == Response(0, FALSE, "none", <<>>)

\* bodies of the responses whose status is not 200
ErrorBodies == {<<>>, <<"[", "R2", "]">>}

NoError == [kind |-> "", status |-> 0, text |-> <<>>]

-----------------------------------------------------------------------------
(* The script run *)

Fresh ==
    /\ resp = NoResponse
    /\ requests = 0
    /\ parsed = FALSE
    /\ issues = ListV(<<>>)
    /\ err = NoError
    /\ df = <<>>
    /\ metric = NaT
    /\ rating = ""
    /\ message = ""
    /\ fig = <<>>
    /\ figBuilt = FALSE
    /\ info = FALSE
    /\ warning = FALSE
    /\ exc = ""

Init ==
    /\ pc = "start"
    /\ name \in Names
    /\ run_check \in BOOLEAN
    /\ Fresh

\* faulty variant of Trigger: the fetch is guarded by the button alone (C7
\* must reject it)
TriggerNoNameCheck ==
    /\ pc = "start"
    /\ IF run_check
       THEN pc' = "fetch" /\ UNCHANGED warning
       ELSE pc' = "done" /\ UNCHANGED warning
    /\ UNCHANGED <<name, run_check, resp, requests, parsed, issues, err, df, metric,
                   rating, message, fig, figBuilt, info, exc>>

\* lines 95-98 and 238-239: the guards of the main block
Trigger ==
    /\ pc = "start"
    /\ IF run_check /\ name # ""
       THEN pc' = "fetch" /\ UNCHANGED warning
       ELSE IF run_check /\ name = ""
            THEN pc' = "done" /\ warning' = TRUE
            ELSE pc' = "done" /\ UNCHANGED warning
    /\ UNCHANGED <<name, run_check, resp, requests, parsed, issues, err, df, metric,
                   rating, message, fig, figBuilt, info, exc>>

\* line 44 raises: the request did not complete (no response)
PostFails ==
    /\ pc = "fetch"
    /\ requests' = requests + 1
    /\ exc' = "ConnectionError"
    /\ pc' = "crashed"
    /\ UNCHANGED <<name, run_check, resp, parsed, issues, err, df, metric, rating,
                   message, fig, figBuilt, info, warning>>

\* faulty variant of FetchHttpError: the status is reported but the body is
\* interpreted all the same (C6 must reject it)
FetchHttpErrorParsesBody ==
    /\ pc = "fetch"
    /\ requests' = requests + 1
    /\ \E st \in StatusCodes \ {HTTP_OK}, body \in ErrorBodies :
          /\ resp' = Response(st, TRUE, "none", body)
          /\ err' = [kind |-> "http", status |-> st, text |-> body]
          /\ issues' = Interpret(body).val
    /\ parsed' = TRUE
    /\ pc' = "branch"
    /\ UNCHANGED <<name, run_check, df, metric, rating, message, fig, figBuilt,
                   info, warning, exc>>

\* lines 44-48: a response whose status is not 200
FetchHttpError ==
    /\ pc = "fetch"
    /\ requests' = requests + 1
    /\ \E st \in StatusCodes \ {HTTP_OK}, body \in ErrorBodies :
          /\ resp' = Response(st, TRUE, "none", body)
          /\ err' = [kind |-> "http", status |-> st, text |-> body]
    /\ issues' = ListV(<<>>)
    /\ pc' = "branch"
    /\ UNCHANGED <<name, run_check, parsed, df, metric, rating, message, fig,
                   figBuilt, info, warning, exc>>

\* lines 44-67: a 200 response
FetchOk ==
    /\ pc = "fetch"
    /\ requests' = requests + 1
    /\ \E hasText \in BOOLEAN, f \in FenceKinds, T \in Inners :
          /\ hasText \/ (f = "none" /\ T = <<>>)
          /\ resp' = Response(HTTP_OK, hasText, f, T)
          /\ LET r == TryBlock(hasText, Wrap(f, T))
             IN  /\ issues' = r.val
                 /\ err' = IF r.failed
                           THEN [kind |-> "parse", status |-> HTTP_OK, text |-> <<>>]
                           ELSE NoError
    /\ parsed' = TRUE
    /\ pc' = "branch"
    /\ UNCHANGED <<name, run_check, df, metric, rating, message, fig, figBuilt,
                   info, warning, exc>>

\* faulty variant of Branch: an empty result ends the run without the notice
\* (C10 must reject it)
BranchNoNotice ==
    /\ pc = "branch"
    /\ IF Truthy(issues) THEN pc' = "preprocess" ELSE pc' = "done"
    /\ UNCHANGED <<name, run_check, resp, requests, parsed, issues, err, df, metric,
                   rating, message, fig, figBuilt, info, warning, exc>>

\* lines 102 and 235-236
Branch ==
    /\ pc = "branch"
    /\ IF Truthy(issues)
       THEN pc' = "preprocess" /\ UNCHANGED info
       ELSE pc' = "done" /\ info' = TRUE
    /\ UNCHANGED <<name, run_check, resp, requests, parsed, issues, err, df, metric,
                   rating, message, fig, figBuilt, warning, exc>>

\* line 103: preprocess_issues(issues)
Preprocess ==
    /\ pc = "preprocess"
    /\ IF PreprocessRaises(issues) # ""
       THEN /\ exc' = PreprocessRaises(issues)
            /\ pc' = "crashed"
            /\ UNCHANGED df
       ELSE /\ df' \in SortValues(DropNa(Frame(issues)))
            /\ pc' = "metric"
            /\ UNCHANGED exc
    /\ UNCHANGED <<name, run_check, resp, requests, parsed, issues, err, metric,
                   rating, message, fig, figBuilt, info, warning>>

\* faulty variant of Metric: the metric counts the rows of the frame (C9 must
\* reject it)
MetricFromFrame ==
    /\ pc = "metric"
    /\ metric' = Len(df)
    /\ pc' = "assess"
    /\ UNCHANGED <<name, run_check, resp, requests, parsed, issues, err, df, rating,
                   message, fig, figBuilt, info, warning, exc>>

\* line 108: st.metric("Total Issues", len(issues))
Metric ==
    /\ pc = "metric"
    /\ metric' = Len(issues.items)
    /\ pc' = "assess"
    /\ UNCHANGED <<name, run_check, resp, requests, parsed, issues, err, df, rating,
                   message, fig, figBuilt, info, warning, exc>>

\* lines 111-113: assess_risk(issues) and the rating shown
Assess ==
    /\ pc = "assess"
    /\ IF AssessRaises(issues.items)
       THEN /\ exc' = "AttributeError"
            /\ pc' = "crashed"
            /\ UNCHANGED <<rating, message>>
       ELSE /\ rating' = AssessRisk(issues.items)[1]
            /\ message' = AssessRisk(issues.items)[2]
            /\ pc' = "chart"
            /\ UNCHANGED exc
    /\ UNCHANGED <<name, run_check, resp, requests, parsed, issues, err, df, metric,
                   fig, figBuilt, info, warning>>

\* lines 116-233: the figure is built from df (and never handed to st)
Chart ==
    /\ pc = "chart"
    /\ IF ChartRaises(issues)
       THEN /\ exc' = "ValueError"
            /\ pc' = "crashed"
            /\ UNCHANGED <<fig, figBuilt>>
       ELSE /\ fig' = df
            /\ figBuilt' = TRUE
            /\ pc' = "done"
            /\ UNCHANGED exc
    /\ UNCHANGED <<name, run_check, resp, requests, parsed, issues, err, df, metric,
                   rating, message, info, warning>>

\* the next user interaction reruns the script from the top
Rerun ==
    /\ pc \in {"done", "crashed"}
    /\ pc' = "start"
    /\ name' \in Names
    /\ run_check' \in BOOLEAN
    /\ resp' = NoResponse
    /\ requests' = 0
    /\ parsed' = FALSE
    /\ issues' = ListV(<<>>)
    /\ err' = NoError
    /\ df' = <<>>
    /\ metric' = NaT
    /\ rating' = ""
    /\ message' = ""
    /\ fig' = <<>>
    /\ figBuilt' = FALSE
    /\ info' = FALSE
    /\ warning' = FALSE
    /\ exc' = ""

Next ==
    \/ Trigger
    \/ PostFails
    \/ FetchHttpError
    \/ FetchOk
    \/ Branch
    \/ Preprocess
    \/ Metric
    \/ Assess
    \/ Chart
    \/ Rerun

Spec == Init /\ [][Next]_vars

-----------------------------------------------------------------------------
(* assess_risk and preprocess_issues called directly, on issue sequences    *)
(* that no completion of the bounded environment above need produce         *)

RiskItems ==
    {ObjV(Dict(Ymd(2020, 1, 1), Str(lawsuit), sev)) :
        sev \in {Str(low), Str(medium), Str(high), Str(HIGH), Str(High), Absent, Null,
                 Num(3)}}

DatedItems ==
    {ObjV(Dict(date, Str(lawsuit), Str(low))) :
        date \in {Ymd(2023, 5, 1), Ymd(2021, 1, 1), Ymd(2022, 3, 3), Ymd(2024, 2, 29),
                  Ymd(2023, 2, 29), Null, Str(unknown)}}
    \cup {ObjV(Dict(Ymd(2021, 1, 1), Str(lawsuit), Str(high)))}

Called(at, items) ==
    /\ pc = at
    /\ name = "Jane Roe"
    /\ run_check = TRUE
    /\ issues = ListV(items)
    /\ resp = NoResponse
    /\ requests = 0
    /\ parsed = FALSE
    /\ err = NoError
    /\ df = <<>>
    /\ metric = NaT
    /\ rating = ""
    /\ message = ""
    /\ fig = <<>>
    /\ figBuilt = FALSE
    /\ info = FALSE
    /\ warning = FALSE
    /\ exc = ""

InitRisk == \E items \in SeqsUpTo(RiskItems, MaxIssues) : Called("assess", items)

SpecRisk == InitRisk /\ [][Assess]_vars

\* the caller passes a non-empty list (line 102)
InitPre ==
    \E items \in SeqsUpTo(DatedItems, MaxDated) \ {<<>>} : Called("preprocess", items)

SpecPre == InitPre /\ [][Preprocess]_vars

-----------------------------------------------------------------------------
(* Properties *)

\* every spelling of "high" that differs from it only in letter case
HighSpellings ==
    {<<a, b, c, d>> : a \in {"h", "H"}, b \in {"i", "I"}, c \in {"g", "G"}, d \in {"h", "H"}}

IsHighRecord(item) ==
    item.t = "obj" /\ item.o.severity.tag = "str" /\ item.o.severity.s \in HighSpellings

SomeHigh(items) == \E i \in DOMAIN items : IsHighRecord(items[i])

\* C1: whenever assess_risk returns, the rating is Green exactly for the empty
\* sequence, Red exactly for a non-empty sequence that has a record whose
\* severity is "high" in any letter case or that has 5 or more records, and
\* Yellow exactly for 1 to 4 records none of which is high.
C1_RiskRule ==
    pc = "chart" =>
        LET items == issues.items
        IN  /\ rating \in {"Green", "Yellow", "Red"}
            /\ rating = "Green" <=> items = <<>>
            /\ rating = "Red" <=> (items # <<>> /\ (SomeHigh(items) \/ Len(items) >= 5))
            /\ rating = "Yellow" <=> (Len(items) \in 1..4 /\ ~SomeHigh(items))

\* five records, none of them high: Red by the count threshold alone
C1_Witness ==
    /\ pc = "chart"
    /\ Len(issues.items) = 5
    /\ ~SomeHigh(issues.items)
    /\ rating = "Red"

\* the run has returned from fetch_issues with a completion read from a 200 response
Interpreted == parsed /\ resp.status = HTTP_OK /\ resp.hasText

\* C2: a completion T wrapped in a code fence (with or without the json tag,
\* with or without newlines between fence and T) is interpreted to the same
\* value as T itself.
C2_FenceTransparent ==
    (Interpreted /\ resp.fence # "none") => issues = Interpret(resp.inner).val

\* the completion is JSON, bare or as the content of its code fence
IsJson(r) == Loads(r.text).ok \/ (r.fence # "none" /\ Loads(r.inner).ok)

NothingRendered == metric = NaT /\ rating = "" /\ ~figBuilt

\* C3: after a 200 response whose completion is not valid JSON, or whose body
\* has no completion text, fetch_issues has returned the empty sequence and
\* shown an error, nothing was raised, and the run ends in the "no issues"
\* notice with no metric, no rating and no chart.
C3_InvalidJsonIsEmpty ==
    (parsed /\ resp.status = HTTP_OK /\ (~resp.hasText \/ ~IsJson(resp))) =>
        /\ issues = ListV(<<>>)
        /\ err.kind = "parse"
        /\ exc = ""
        /\ NothingRendered
        /\ pc = "done" => info

IsIssueRecord(item) ==
    /\ item.t = "obj"
    /\ item.o.date.tag \in {"ymd", "str", "null"}
    /\ item.o.description.tag = "str"
    /\ item.o.severity.tag = "str"
    /\ item.o.severity.s \in {low, medium, high}

\* C4: what fetch_issues returns is the empty sequence or a sequence of
\* well-formed issue records (date, description, severity in low/medium/high).
C4_OnlyIssueRecords ==
    requests > 0 =>
        /\ issues.t = "list"
        /\ \A i \in DOMAIN issues.items : IsIssueRecord(issues.items[i])

\* C5: no exception escapes fetch_issues, preprocess_issues or assess_risk and
\* ends the run abnormally, whatever the response.
C5_NoFatalError == exc = "" /\ pc # "crashed"


\* C6: after a response whose status is not 200, fetch_issues has shown an
\* error carrying the status code and the body text and returned the empty
\* sequence, the body was not read as a completion, and the run made exactly
\* one request; no run makes more than one.
C6_HttpErrorShortCircuits ==
    /\ requests <= 1
    /\ resp.status \notin {0, HTTP_OK} =>
          /\ err = [kind |-> "http", status |-> resp.status, text |-> resp.text]
          /\ issues = ListV(<<>>)
          /\ ~parsed
          /\ requests = 1

\* a 500 response whose body would parse as an issue list ends in the notice
C6_Witness ==
    /\ pc = "done"
    /\ resp.status = 500
    /\ resp.text = <<"[", "R2", "]">>
    /\ info

\* C7: a request is made only in a run where the button fired and the name is
\* non-empty; a run where the button fired with an empty name shows the
\* warning and nothing else; a run where the button did not fire shows nothing.
C7_FetchGuard ==
    /\ (pc = "fetch" \/ requests > 0) => (run_check /\ name # "")
    /\ warning => (run_check /\ name = "")
    /\ (pc = "done" /\ run_check /\ name = "") => warning
    /\ ~(run_check /\ name # "") =>
          /\ requests = 0
          /\ NothingRendered
          /\ ~info
          /\ err = NoError

C7_Witness ==
    /\ pc = "done"
    /\ run_check
    /\ name = ""
    /\ warning
    /\ requests = 0

IsDate(v) == v.tag = "ymd" /\ ValidDate(v.y, v.m, v.d)

Occurrences(seq, x) == Cardinality({i \in DOMAIN seq : seq[i] = x})

Records(items) == [i \in DOMAIN items |-> items[i].o]
RowRecords(rows) == [i \in DOMAIN rows |-> rows[i].rec]

Dated(items) == {i \in DOMAIN items : IsDate(items[i].o.date)}

\* C9: in a run that built the figure, the metric is the length of the full
\* parsed list and the figure holds the records with a parseable date, so the
\* figure never has more points than the metric says, has fewer exactly when
\* some record's date is unparseable, and the rating is Red whenever the full
\* list has 5 records or a high one, dropped records included.
C9_CountVsChart ==
    /\ metric # NaT => metric = Len(issues.items)
    /\ figBuilt =>
        LET items == issues.items
        IN  /\ Len(fig) = Cardinality(Dated(items))
            /\ \A i \in DOMAIN fig : IsDate(fig[i].rec.date)
            /\ Len(fig) <= metric
            /\ Len(fig) # metric <=> (\E i \in DOMAIN items : ~IsDate(items[i].o.date))
            /\ (Len(items) >= 5 \/ SomeHigh(items)) <=> rating = "Red"

\* five records none of which is high, one of them without a parseable date:
\* the metric says 5, the figure has 4 points and the rating is Red
C9_Witness ==
    /\ figBuilt
    /\ metric = 5
    /\ Len(fig) = 4
    /\ ~SomeHigh(issues.items)
    /\ rating = "Red"

\* C10: assess_risk is called only with a non-empty list, a rating shown is
\* Yellow or Red and never Green with "No known issues.", and a run whose
\* fetch returned the empty sequence ends in the notice with no rating and no
\* metric.
C10_NeverGreen ==
    /\ pc = "assess" => (issues.t = "list" /\ issues.items # <<>>)
    /\ rating \in {"", "Yellow", "Red"}
    /\ message # "No known issues."
    /\ (pc = "done" /\ requests > 0 /\ issues = ListV(<<>>)) =>
          (info /\ metric = NaT /\ rating = "")
    /\ info => (issues.t # "list" \/ issues.items = <<>>)

\* a run whose completion is the empty array ends in the notice
C10_Witness ==
    /\ pc = "done"
    /\ resp.status = HTTP_OK
    /\ resp.text = <<"[", "]">>
    /\ err = NoError
    /\ issues = ListV(<<>>)
    /\ info
    /\ rating = ""

====
